---- MODULE Spec2Model ----
(***************************************************************************)
(* Batch encoders of document-qa (src/encoder.py): the answer encoders,    *)
(* DocumentAndQuestionEncoder.init / encode / __setstate__, the packed     *)
(* span index they rely on, CheatingEncoder, QuestionEncoder and           *)
(* MultiContextAndQuestionEncoder.                                         *)
(*                                                                         *)
(* Arrays are functions over 0..n-1 (numpy's 0-based axes); a Python None  *)
(* in an Optional[int] is the integer None; tokens are sequences of        *)
(* one-character strings, so that str.lower() and len(word) are computed.  *)
(***************************************************************************)
EXTENDS Integers, Sequences, FiniteSets, TLC

\* ------------------------------------------------------------------ bounds
MaxBatch == 2        \* examples per batch handed to the batch encoder
MaxIdx == 1          \* largest word index of a gold span
MaxLen == 5          \* context lengths the packed index is exercised on
MaxBound == 5        \* span-length bounds the packed index is exercised on
MaxCalls == 2        \* encode calls made one after the other on one encoder

\* ----------------------------------------------------------------- helpers
None == -1

Min(a, b) == IF a <= b THEN a ELSE b

Range(n) == 0 .. (n - 1)

\* numpy's a.max() over a 1-d array given as a function over 0..n-1 (n >= 1)
ArrayMax(a) == CHOOSE m \in {a[i] : i \in DOMAIN a} : \A i \in DOMAIN a : a[i] <= m

RECURSIVE SumLens(_)
SumLens(context) ==
    IF context = <<>> THEN 0 ELSE Len(Head(context)) + SumLens(Tail(context))

\* ------------------------------------------------------------------ tokens
LowerOf == ("F" :> "f") @@ ("B" :> "b")

\* str.lower(), character by character
lower(word) == [i \in 1 .. Len(word) |-> IF word[i] \in DOMAIN LowerOf THEN LowerOf[word[i]] ELSE word[i]]

w_a == <<"a">>
w_Fo == <<"F", "o">>
w_fo == <<"f", "o">>
w_bar == <<"b", "a", "r">>
w_what == <<"w", "h", "a", "t">>
w_the == <<"t", "h", "e">>

\* the word lookup's vocabulary: token -> index; anything else is unknown
Vocabulary == (w_a :> 2) @@ (w_what :> 3) @@ (w_the :> 4)

\* WordEmbedder.question_word_to_ix / context_word_to_ix: a negative index
\* means the token is out of vocabulary
question_word_to_ix(word) == IF word \in DOMAIN Vocabulary THEN Vocabulary[word] ELSE 0 - 1

context_word_to_ix(word) == IF word \in DOMAIN Vocabulary THEN Vocabulary[word] ELSE 0 - 1

\* the ids WordEmbedder.get_placeholder may hand out
PlaceholderIds == {7, 8}

CharVocabulary ==
    ("a" :> 1) @@ ("b" :> 2) @@ ("r" :> 3) @@ ("f" :> 4) @@ ("o" :> 5) @@ ("F" :> 6)

\* CharEmbedder.char_to_ix
char_to_ix(c) == CharVocabulary[c]

\* ----------------------------------------------------------------- answers
NoAnswer == [tag |-> "None", spans |-> {}]

ParagraphSpans(spans) == [tag |-> "ParagraphSpans", spans |-> spans]

TriviaQaAnswer(spans) == [tag |-> "TriviaQaAnswer", spans |-> spans]

\* an answer object of a class the encoders do not know
OtherAnswer == [tag |-> "Other", spans |-> {}]

\* ------------------------------------------------------- packed span index
\* number of bounded spans of a context of `len` words that start before `start`
RECURSIVE SpansStartingBefore(_, _, _)
SpansStartingBefore(start, len, bound) ==
    IF start <= 0 THEN 0
    ELSE LET here == Min(bound, len - (start - 1))
         IN SpansStartingBefore(start - 1, len, bound) + (IF here > 0 THEN here ELSE 0)

\* nn.span_prediction.to_packed_coordinates_np, for one span: the position of
\* (start, end) among the bounded spans of the context, ordered by (start, end)
\* the index computed as if every span length were allowed
PackedIgnoringBound(span, len, bound) ==
    SpansStartingBefore(span[1], len, len) + (span[2] - span[1])

to_packed_coordinates_np(span, len, bound) ==
    SpansStartingBefore(span[1], len, bound) + (span[2] - span[1])

\* the bounded spans of a context of `len` words
ValidSpans(len, bound) ==
    {sp \in Range(len) \X Range(len) : sp[1] <= sp[2] /\ sp[2] - sp[1] < bound}

\* width of the packed target
PackedSize(context_word_dim, bound) ==
    to_packed_coordinates_np(<<context_word_dim - bound, context_word_dim - 1>>, context_word_dim, bound) + 1

\* --------------------------------------------------------- answer encoders
Failed(err) == [error |-> err, out |-> <<>>]

Returned(out) == [error |-> "ok", out |-> out]

\* the exception raised for the first example that raises one, else "ok"
FirstError(fail) ==
    LET bad == {i \in DOMAIN fail : fail[i] # "ok"}
    IN IF bad = {} THEN "ok" ELSE fail[CHOOSE i \in bad : \A j \in bad : i <= j]

\* a candidate choice that skips the truncation filter
SingleCandidatesUnfiltered(answer, clen) ==
    IF answer.tag \in {"ParagraphSpans", "TriviaQaAnswer"} THEN answer.spans ELSE {}

\* the spans np.random.randint may select for one example
SingleCandidates(answer, clen) ==
    IF answer.tag = "ParagraphSpans" THEN answer.spans
    ELSE IF answer.tag = "TriviaQaAnswer" THEN {sp \in answer.spans : sp[2] < clen}
    ELSE {}

\* a validation that forgets the end-of-context test
SingleFailureNoEndCheck(answer, clen, span) ==
    IF answer.tag = "None" THEN "ValueError"
    ELSE IF answer.tag \notin {"ParagraphSpans", "TriviaQaAnswer"} THEN "NotImplementedError"
    ELSE IF SingleCandidates(answer, clen) = {} THEN "ValueError"
    ELSE IF span[1] > span[2] THEN "ValueError"
    ELSE "ok"

SingleFailure(answer, clen, span) ==
    IF answer.tag = "None" THEN "ValueError"
    ELSE IF answer.tag \notin {"ParagraphSpans", "TriviaQaAnswer"} THEN "NotImplementedError"
    ELSE IF SingleCandidates(answer, clen) = {} THEN "ValueError"
    ELSE IF span[1] > span[2] THEN "ValueError"
    ELSE IF span[2] >= clen THEN "ValueError"
    ELSE "ok"

\* every outcome of the random choices of one call: example -> selected span
SinglePicks(context_len, batch) ==
    LET n == Len(batch)
        choices(i) ==
            LET c == SingleCandidates(batch[i + 1].answer, context_len[i])
            IN IF c = {} THEN {<<0, 0>>} ELSE c
        all == UNION {choices(i) : i \in Range(n)}
    IN {p \in [Range(n) -> all] : \A i \in Range(n) : p[i] \in choices(i)}

SingleSpanAnswerEncoder_encode(batch_size, context_len, context_word_dim, batch, pick) ==
    LET n == Len(batch)
        fail == [i \in Range(n) |-> SingleFailure(batch[i + 1].answer, context_len[i], pick[i])]
        err == FirstError(fail)
    IN IF err # "ok" THEN Failed(err)
       ELSE IF n > batch_size THEN Failed("IndexError")
       ELSE Returned([k \in {"answer_spans"} |->
                [i \in Range(batch_size) |-> IF i < n THEN pick[i] ELSE <<0, 0>>]])

\* a truncation filter that is off by one
DenseKeptOffByOne(answer, context_word_dim) == {sp \in answer.spans : sp[2] <= context_word_dim}

\* the gold spans the dense encoder keeps
DenseKept(answer, context_word_dim) == {sp \in answer.spans : sp[2] < context_word_dim}

DenseFailure(answer, context_word_dim) ==
    IF answer.tag = "None" THEN "ok"
    ELSE IF answer.tag \notin {"ParagraphSpans", "TriviaQaAnswer"} THEN "AttributeError"
    ELSE IF \E sp \in DenseKept(answer, context_word_dim) :
                sp[1] >= context_word_dim \/ sp[2] >= context_word_dim
         THEN "IndexError"
    ELSE "ok"

DenseMultiSpanAnswerEncoder_encode(batch_size, context_len, context_word_dim, batch) ==
    LET n == Len(batch)
        fail == [i \in Range(n) |-> DenseFailure(batch[i + 1].answer, context_word_dim)]
        err == FirstError(fail)
        mask(side) ==
            [i \in Range(batch_size) |-> [j \in Range(context_word_dim) |->
                /\ i < n
                /\ batch[i + 1].answer.tag # "None"
                /\ \E sp \in DenseKept(batch[i + 1].answer, context_word_dim) : sp[side] = j]]
    IN IF err # "ok" THEN Failed(err)
       ELSE IF n > batch_size THEN Failed("IndexError")
       ELSE Returned([k \in {"answer_starts", "answer_ends"} |->
                IF k = "answer_starts" THEN mask(1) ELSE mask(2)])

\* numpy index into an axis of size sz: negative indices count from the end
AxisIndex(ix, sz) == IF ix < 0 THEN ix + sz ELSE ix

PackedFailure(answer, context_word_dim, bound, sz) ==
    IF answer.tag \notin {"ParagraphSpans", "TriviaQaAnswer"} THEN "AttributeError"
    ELSE IF \E sp \in answer.spans :
                AxisIndex(to_packed_coordinates_np(sp, context_word_dim, bound), sz) \notin Range(sz)
         THEN "IndexError"
    ELSE "ok"

PackedMultiSpanAnswerEncoder_encode(bound, batch_size, context_len, context_word_dim, batch) ==
    LET n == Len(batch)
        sz == PackedSize(context_word_dim, bound)
        fail == [i \in Range(n) |-> PackedFailure(batch[i + 1].answer, context_word_dim, bound, sz)]
        err == FirstError(fail)
    IN IF sz < 0 THEN Failed("ValueError")
       ELSE IF err # "ok" THEN Failed(err)
       ELSE Returned([k \in {"correct_spans"} |->
                [i \in Range(n) |-> [j \in Range(sz) |->
                    \E sp \in batch[i + 1].answer.spans :
                        AxisIndex(to_packed_coordinates_np(sp, context_word_dim, bound), sz) = j]]])

\* AnswerEncoder.encode of the configured strategy
AnswerEncoder_encode(encoder, batch_size, context_len, context_word_dim, batch, pick) ==
    IF encoder.kind = "SingleSpanAnswerEncoder"
    THEN SingleSpanAnswerEncoder_encode(batch_size, context_len, context_word_dim, batch, pick)
    ELSE IF encoder.kind = "DenseMultiSpanAnswerEncoder"
    THEN DenseMultiSpanAnswerEncoder_encode(batch_size, context_len, context_word_dim, batch)
    ELSE PackedMultiSpanAnswerEncoder_encode(encoder.bound, batch_size, context_len, context_word_dim, batch)

\* the random choices the configured strategy makes
AnswerPicks(encoder, context_len, batch) ==
    IF encoder.kind = "SingleSpanAnswerEncoder" THEN SinglePicks(context_len, batch)
    ELSE {[i \in Range(Len(batch)) |-> <<0, 0>>]}

\* ------------------------------------------------------------------ state
VARIABLES
    enc,           \* the DocumentAndQuestionEncoder: its fields
    input_spec,    \* the ParagraphAndQuestionSpec init was called with
    batch,         \* encode's argument: the examples of the last call
    is_train,      \* encode's argument: the mode of the last call
    outcome,       \* "idle", "returned", or the exception the last call raised
    feed_dict,     \* the mapping the last call returned (empty if it raised)
    alloc,         \* encode's locals: the dimensions it allocated its buffers with
    writes,        \* the buffer indices the last call assigned to
    lookups,       \* the get_placeholder requests of the last call, in order
    calls_left,    \* encode calls still to be made in this run
    placeholders,  \* encode's local placeholder table as the last call left it
    answer_args,   \* the arguments of a direct AnswerEncoder.encode call
    answer_out,    \* what that call raised or returned
    packed,        \* a span, its context and bound, and its packed index
    persisted,     \* a pickled DocumentAndQuestionEncoder: {"version", "state"}
    loaded,        \* the __dict__ __setstate__ installed, or the exception it raised
    cheat,         \* a CheatingEncoder call on the same batch: len_opt, outcome, mapping
    variant        \* a QuestionEncoder or MultiContextAndQuestionEncoder and its last call

encVars == <<enc, input_spec>>

variantVars == <<cheat, variant>>

otherVars == <<answer_args, answer_out, packed, persisted, loaded, cheat, variant>>

callVars == <<batch, is_train, outcome, feed_dict, alloc, writes, lookups, calls_left, placeholders>>

\* ---------------------------------------------------------- configuration
AnswerEncoders ==
    { [kind |-> "SingleSpanAnswerEncoder", bound |-> None],
      [kind |-> "DenseMultiSpanAnswerEncoder", bound |-> None],
      [kind |-> "PackedMultiSpanAnswerEncoder", bound |-> 2] }

\* para_size_th, sent_size_th, word_featurizer (its number of features per word)
ParaSizeThs == {None, 1}

SentSizeThs == {None, 1}

WordFeaturizers == {None, 1}

\* ParagraphAndQuestionSpec: batch_size, max_num_quesiton_words,
\* max_num_context_words, max_word_size
InputSpecs ==
    [batch_size : {None, 1, 2},
     max_num_quesiton_words : {None, 1},
     max_num_context_words : {None, 2},
     max_word_size : {None, 1}]

WordEmbedders == {"None", "WordEmbedder"}

\* a CharEmbedder, given by its get_word_size_th()
CharEmbedders == {None, 2}

\* DocumentAndQuestionEncoder.__init__
Constructed(answer_encoder, para_size_th, sent_size_th, word_featurizer) ==
    [answer_encoder |-> answer_encoder,
     doc_size_th |-> para_size_th,
     sent_size_th |-> sent_size_th,
     word_featurizer |-> word_featurizer,
     word_embedder |-> "None",
     char_emb |-> None,
     batch_size |-> None,
     max_context_word_dim |-> None,
     max_ques_word_dim |-> None,
     max_char_dim |-> None,
     context_words |-> "None"]

\* utils.max_or_none
max_or_none(a, b) == IF a = None \/ b = None THEN None ELSE IF a >= b THEN a ELSE b

\* the character dimension init derives
MaxCharDim(char_emb, max_word_size) ==
    IF char_emb # None
    THEN IF max_word_size # None THEN Min(char_emb, max_word_size) ELSE char_emb
    ELSE 1

\* DocumentAndQuestionEncoder.init: the fields it sets
Initialised(e, spec, word_emb, char_emb) ==
    [e EXCEPT !.word_embedder = word_emb,
              !.char_emb = char_emb,
              !.batch_size = spec.batch_size,
              !.max_ques_word_dim = spec.max_num_quesiton_words,
              !.max_char_dim = MaxCharDim(char_emb, spec.max_word_size),
              !.max_context_word_dim = max_or_none(spec.max_num_context_words, e.doc_size_th),
              !.context_words = "placeholder"]

\* ------------------------------------------------------------ the examples
Example(question, context, answer) ==
    [question |-> question, context |-> context, answer |-> answer]

\* the examples the batcher draws from
Corpus ==
    { Example(<<w_Fo, w_a>>, << <<w_fo, w_a>>, <<w_Fo>> >>, TriviaQaAnswer({<<0, 1>>, <<2, 2>>})),
      Example(<<w_a>>, << <<w_a>> >>, ParagraphSpans({<<0, 0>>})),
      Example(<<w_bar>>, << <<w_a, w_bar>> >>, NoAnswer) }

RECURSIVE SeqsUpTo(_, _)
SeqsUpTo(S, n) ==
    IF n = 0 THEN {<<>>}
    ELSE LET shorter == SeqsUpTo(S, n - 1)
         IN shorter \cup {Append(q, x) : q \in {r \in shorter : Len(r) = n - 1}, x \in S}

Batches == SeqsUpTo(Corpus, MaxBatch)

\* ------------------------------------- DocumentAndQuestionEncoder.encode
\* the batch dimension of the buffers
PaddedBatchSize(e, b) == IF e.batch_size # None THEN e.batch_size ELSE Len(b)

BatchTooLarge(e, b) == e.batch_size # None /\ e.batch_size < Len(b)

\* "Context might be truncated"
Truncating(e, train) == train /\ e.max_context_word_dim # None

ContextLen(e, b, train) ==
    [i \in Range(Len(b)) |->
        IF Truncating(e, train)
        THEN Min(SumLens(b[i + 1].context), e.max_context_word_dim)
        ELSE SumLens(b[i + 1].context)]

ContextWordDim(e, b, train) ==
    IF Truncating(e, train) THEN e.max_context_word_dim ELSE ArrayMax(ContextLen(e, b, train))

QuestionLen(b) == [i \in Range(Len(b)) |-> Len(b[i + 1].question)]

\* a question check that never fires
QuestionNeverTooLong(e, b) == FALSE

QuestionTooLong(e, b) ==
    e.max_ques_word_dim # None /\ ArrayMax(QuestionLen(b)) > e.max_ques_word_dim

QuesWordDim(e, b) ==
    IF e.max_ques_word_dim = None THEN ArrayMax(QuestionLen(b)) ELSE e.max_ques_word_dim

\* what encode raises before it allocates anything, else "ok"; the max() of an
\* empty array raises too
Precheck(e, b, train) ==
    IF BatchTooLarge(e, b) THEN "ValueError"
    ELSE IF Len(b) = 0 THEN "ValueError"
    ELSE IF QuestionTooLong(e, b) THEN "ValueError"
    ELSE "ok"

\* a word loop that tests the cap only after writing past it
RECURSIVE SentenceWordsLateBreak(_, _, _)
SentenceWordsLateBreak(e, sent, acc) ==
    IF sent = <<>> \/ Len(acc) = e.max_context_word_dim + 1 THEN acc
    ELSE SentenceWordsLateBreak(e, Tail(sent), Append(acc, Head(sent)))

\* the words of one sentence the context loop reaches: it stops at
\* word_ix == self.max_context_word_dim (word_ix is the number written so far)
RECURSIVE SentenceWords(_, _, _)
SentenceWords(e, sent, acc) ==
    IF sent = <<>> \/ Len(acc) = e.max_context_word_dim THEN acc
    ELSE SentenceWords(e, Tail(sent), Append(acc, Head(sent)))

\* the words of the context the loop reaches: it stops at
\* sent_ix == self.sent_size_th
RECURSIVE ContextWords(_, _, _, _)
ContextWords(e, context, sent_ix, acc) ==
    IF sent_ix = Len(context) \/ (e.sent_size_th # None /\ sent_ix = e.sent_size_th) THEN acc
    ELSE ContextWords(e, context, sent_ix + 1, SentenceWords(e, context[sent_ix + 1], acc))

\* the characters of a word the char loop reaches: it stops at
\* char_ix == self.max_char_dim
RECURSIVE CharsWritten(_, _, _)
CharsWritten(e, word, char_ix) ==
    IF char_ix = Len(word) \/ char_ix = e.max_char_dim THEN char_ix
    ELSE CharsWritten(e, word, char_ix + 1)

\* WordEmbedder.get_placeholder: the k-th request of a call is answered ph[k]
get_placeholder(ph, k) == ph[k]

\* a word loop whose placeholder table is keyed by the token as written
RECURSIVE ResolveWordsRawKey(_, _, _, _)
ResolveWordsRawKey(words, side, st, ph) ==
    IF words = <<>> THEN st
    ELSE LET word == Head(words)
             ix == IF side = "question" THEN question_word_to_ix(word)
                   ELSE context_word_to_ix(word)
             next ==
                IF ix >= 0 THEN [st EXCEPT !.ids = Append(@, ix)]
                ELSE IF word \in DOMAIN st.placeholders
                THEN [st EXCEPT !.ids = Append(@, st.placeholders[word])]
                ELSE LET id == ph[st.used + 1]
                     IN [ids |-> Append(st.ids, id),
                         placeholders |-> (word :> id) @@ st.placeholders,
                         requests |-> Append(st.requests, [word |-> lower(word), id |-> id]),
                         used |-> st.used + 1]
         IN ResolveWordsRawKey(Tail(words), side, next, ph)

\* the word loop over `words`: st carries the ids written, the example's
\* placeholder table, the requests made and their number so far in the call
RECURSIVE ResolveWords(_, _, _, _)
ResolveWords(words, side, st, ph) ==
    IF words = <<>> THEN st
    ELSE LET word == Head(words)
             ix == IF side = "question" THEN question_word_to_ix(word)
                   ELSE context_word_to_ix(word)
             wl == lower(word)
             next ==
                IF ix >= 0 THEN [st EXCEPT !.ids = Append(@, ix)]
                ELSE IF wl \in DOMAIN st.placeholders
                THEN [st EXCEPT !.ids = Append(@, st.placeholders[wl])]
                ELSE LET id == get_placeholder(ph, st.used + 1)
                     IN [ids |-> Append(st.ids, id),
                         placeholders |-> (wl :> id) @@ st.placeholders,
                         requests |-> Append(st.requests, [word |-> wl, id |-> id]),
                         used |-> st.used + 1]
         IN ResolveWords(Tail(words), side, next, ph)

\* a table that is not created anew: what the previous call left
KeptPlaceholders == placeholders

\* the placeholder table an example starts with
NewPlaceholders == <<>>

\* one iteration of the loop over the batch: the ids of the question and of the
\* context of example doc, given the number of requests made before it
EncodeExample(e, doc, ph, used) ==
    LET q == ResolveWords(doc.question, "question",
                 [ids |-> <<>>, placeholders |-> NewPlaceholders, requests |-> <<>>, used |-> used], ph)
        c == ResolveWords(ContextWords(e, doc.context, 0, <<>>), "context",
                 [q EXCEPT !.ids = <<>>], ph)
    IN [question |-> q.ids, context |-> c.ids, requests |-> c.requests, used |-> c.used,
        placeholders |-> c.placeholders]

\* the requests of a call in order, each with its example and the mode passed
RECURSIVE Requests(_, _, _)
Requests(done, doc_ix, train) ==
    IF doc_ix = Len(done) THEN <<>>
    ELSE [k \in 1 .. Len(done[doc_ix + 1].requests) |->
            [doc_ix |-> doc_ix, word |-> done[doc_ix + 1].requests[k].word,
             id |-> done[doc_ix + 1].requests[k].id, is_train |-> train]]
         \o Requests(done, doc_ix + 1, train)

\* the loop over the batch: per example, what EncodeExample gives
RECURSIVE EncodeExamples(_, _, _, _, _)
EncodeExamples(e, b, ph, doc_ix, done) ==
    IF doc_ix = Len(b) THEN done
    ELSE LET used == IF done = <<>> THEN 0 ELSE done[Len(done)].used
         IN EncodeExamples(e, b, ph, doc_ix + 1,
                Append(done, EncodeExample(e, b[doc_ix + 1], ph, used)))

RECURSIVE SumQuestionAndContext(_)
SumQuestionAndContext(b) ==
    IF b = <<>> THEN 0
    ELSE Len(Head(b).question) + SumLens(Head(b).context) + SumQuestionAndContext(Tail(b))

\* how many placeholder ids a call requests
NumRequests(e, b) ==
    IF e.word_embedder = "None" \/ b = <<>> THEN 0
    ELSE LET ph == [k \in 1 .. SumQuestionAndContext(b) |-> 0]
             done == EncodeExamples(e, b, ph, 0, <<>>)
         IN done[Len(done)].used

\* the indices the loops assign to, per buffer
WordIndices(words) ==
    UNION {{<<i, j>> : j \in Range(Len(words[i]))} : i \in DOMAIN words}

CharIndices(e, words) ==
    UNION {UNION {{<<i, j, k>> : k \in Range(CharsWritten(e, words[i][j + 1], 0))} :
                    j \in Range(Len(words[i]))} : i \in DOMAIN words}

\* the question words, and the context words the loop reaches, per example
QuestionsOf(b) == [i \in Range(Len(b)) |-> b[i + 1].question]

ContextsOf(e, b) == [i \in Range(Len(b)) |-> ContextWords(e, b[i + 1].context, 0, <<>>)]

Writes(e, b) ==
    LET hasW == e.word_embedder # "None"
        hasC == e.char_emb # None
        ques == QuestionsOf(b)
        ctx == ContextsOf(e, b)
    IN [question_words |-> IF hasW THEN WordIndices(ques) ELSE {},
        context_words |-> IF hasW THEN WordIndices(ctx) ELSE {},
        question_chars |-> IF hasC THEN CharIndices(e, ques) ELSE {},
        context_chars |-> IF hasC THEN CharIndices(e, ctx) ELSE {}]

NoWrites == [question_words |-> {}, context_words |-> {}, question_chars |-> {}, context_chars |-> {}]

\* the dimensions encode allocates its buffers with
Alloc(e, b, train) ==
    [batch_size |-> PaddedBatchSize(e, b),
     context_word_dim |-> ContextWordDim(e, b, train),
     ques_word_dim |-> QuesWordDim(e, b),
     max_char_dim |-> e.max_char_dim]

NoAlloc == [batch_size |-> None, context_word_dim |-> None, ques_word_dim |-> None, max_char_dim |-> None]

\* an assignment outside the buffer raises IndexError
InBuffer(w, a) ==
    /\ \A x \in w.question_words : x[1] < a.batch_size /\ x[2] < a.ques_word_dim
    /\ \A x \in w.context_words : x[1] < a.batch_size /\ x[2] < a.context_word_dim
    /\ \A x \in w.question_chars :
            x[1] < a.batch_size /\ x[2] < a.ques_word_dim /\ x[3] < a.max_char_dim
    /\ \A x \in w.context_chars :
            x[1] < a.batch_size /\ x[2] < a.context_word_dim /\ x[3] < a.max_char_dim

\* the word and char buffers after the loops
WordArray(a, dim, w, ids) ==
    [i \in Range(a.batch_size) |-> [j \in Range(dim) |->
        IF <<i, j>> \in w THEN ids[i][j + 1] ELSE 0]]

CharArray(a, dim, w, words) ==
    [i \in Range(a.batch_size) |-> [j \in Range(dim) |-> [k \in Range(a.max_char_dim) |->
        IF <<i, j, k>> \in w THEN char_to_ix(words[i][j + 1][k + 1]) ELSE 0]]]

\* the context handed to the featurizer
RECURSIVE TruncatedContext(_, _, _, _)
TruncatedContext(e, context, sent_ix, acc) ==
    IF sent_ix = Len(context) \/ (e.sent_size_th # None /\ sent_ix = e.sent_size_th) THEN acc
    ELSE TruncatedContext(e, context, sent_ix + 1, acc \o context[sent_ix + 1])

\* python's seq[:stop]
Upto(seq, stop) == IF stop = None THEN seq ELSE SubSeq(seq, 1, Min(stop, Len(seq)))

\* a feature buffer: rows(i) leading rows of example i hold features (1), the rest 0
FeatureArray(a, dim, rows) ==
    [i \in Range(a.batch_size) |-> [j \in Range(dim) |->
        IF i \in DOMAIN rows /\ j < rows[i] THEN 1 ELSE 0]]

\* the slots of the mapping encode returns, before the answer encoder's
Slots(e) ==
    {"context_len", "question_len"}
    \cup (IF e.word_embedder # "None" THEN {"context_words", "question_words"} ELSE {})
    \cup (IF e.char_emb # None THEN {"context_chars", "question_chars"} ELSE {})
    \cup (IF e.word_featurizer # None THEN {"context_features", "question_features"} ELSE {})

\* encode past its checks: the loops, the answer encoder, the featurizer
EncodeBody(e, b, train, ph, pick) ==
    LET n == Len(b)
        a == Alloc(e, b, train)
        w == Writes(e, b)
        done == EncodeExamples(e, b, ph, 0, <<>>)
        ques == QuestionsOf(b)
        ctx == ContextsOf(e, b)
        qids == [i \in Range(n) |-> done[i + 1].question]
        cids == [i \in Range(n) |-> done[i + 1].context]
        qrows == [i \in Range(n) |-> Len(ques[i])]
        crows == [i \in Range(n) |->
                    Len(Upto(TruncatedContext(e, b[i + 1].context, 0, <<>>), e.max_context_word_dim))]
        requests == IF e.word_embedder = "None" THEN <<>> ELSE Requests(done, 0, train)
        answer == AnswerEncoder_encode(e.answer_encoder, a.batch_size,
                        ContextLen(e, b, train), a.context_word_dim, b, pick)
        own == [k \in Slots(e) |->
                  CASE k = "context_len" -> ContextLen(e, b, train)
                    [] k = "question_len" -> QuestionLen(b)
                    [] k = "context_words" -> WordArray(a, a.context_word_dim, w.context_words, cids)
                    [] k = "question_words" -> WordArray(a, a.ques_word_dim, w.question_words, qids)
                    [] k = "context_chars" -> CharArray(a, a.context_word_dim, w.context_chars, ctx)
                    [] k = "question_chars" -> CharArray(a, a.ques_word_dim, w.question_chars, ques)
                    [] k = "context_features" -> FeatureArray(a, a.context_word_dim, crows)
                    [] k = "question_features" -> FeatureArray(a, a.ques_word_dim, qrows)]
        error ==
            IF ~InBuffer(w, a) THEN "IndexError"
            ELSE IF answer.error # "ok" THEN answer.error
            ELSE IF e.word_featurizer # None /\ \E i \in Range(n) :
                        qrows[i] > a.ques_word_dim \/ crows[i] > a.context_word_dim
                 THEN "ValueError"
            ELSE "ok"
    IN [outcome |-> IF error = "ok" THEN "returned" ELSE error,
        feed_dict |-> IF error = "ok" THEN answer.out @@ own ELSE <<>>,
        alloc |-> a,
        writes |-> w,
        lookups |-> requests,
        placeholders |-> IF e.word_embedder = "None" THEN <<>> ELSE done[n].placeholders]

\* the whole call
Encoded(e, b, train, ph, pick) ==
    IF Precheck(e, b, train) # "ok"
    THEN [outcome |-> Precheck(e, b, train), feed_dict |-> <<>>, alloc |-> NoAlloc,
          writes |-> NoWrites, lookups |-> <<>>, placeholders |-> <<>>]
    ELSE EncodeBody(e, b, train, ph, pick)

\* ----------------------------------------------------------------- actions
\* no input spec yet
NoSpec ==
    [batch_size |-> None, max_num_quesiton_words |-> None, max_num_context_words |-> None,
     max_word_size |-> None]

NoArgs ==
    [encoder |-> [kind |-> "None", bound |-> None], batch_size |-> 0, context_len |-> <<>>,
     context_word_dim |-> 0, batch |-> <<>>, pick |-> <<>>]

NoPack == [span |-> <<0, 0>>, context_length |-> 0, bound |-> 0, index |-> None, width |-> None]

NoPickle == [version |-> None, state |-> <<>>]

NotLoaded == [error |-> "idle", dict |-> <<>>]

NoCheat == [len_opt |-> FALSE, outcome |-> "idle", feed_dict |-> <<>>]

\* no QuestionEncoder or MultiContextAndQuestionEncoder constructed yet
NoVariant ==
    [kind |-> "None", word_embedder |-> "None", char_emb |-> None, max_char_dim |-> None,
     batch |-> <<>>, is_train |-> FALSE, outcome |-> "uninitialised", feed_dict |-> <<>>,
     lookups |-> <<>>]

OthersIdle ==
    /\ answer_args = NoArgs
    /\ answer_out = Failed("idle")
    /\ packed = NoPack
    /\ persisted = NoPickle
    /\ loaded = NotLoaded
    /\ cheat = NoCheat
    /\ variant = NoVariant

EncoderIdle ==
    /\ enc = Constructed([kind |-> "SingleSpanAnswerEncoder", bound |-> None], None, None, None)
    /\ input_spec = NoSpec
    /\ batch = <<>>
    /\ is_train = FALSE
    /\ outcome = "idle"
    /\ feed_dict = <<>>
    /\ alloc = NoAlloc
    /\ writes = NoWrites
    /\ lookups = <<>>
    /\ calls_left = 0
    /\ placeholders = <<>>

\* the featurizer is combined with one answer encoder, the thresholds with all
Init ==
    /\ enc \in {Constructed(c.ae, c.p, c.st, c.f) :
                    c \in {d \in [ae : AnswerEncoders, p : ParaSizeThs, st : SentSizeThs,
                                  f : WordFeaturizers] :
                                d.f = None \/ d.ae.kind = "SingleSpanAnswerEncoder"}}
    /\ input_spec = NoSpec
    /\ batch = <<>>
    /\ is_train = FALSE
    /\ outcome = "idle"
    /\ feed_dict = <<>>
    /\ alloc = NoAlloc
    /\ writes = NoWrites
    /\ lookups = <<>>
    /\ calls_left = 1
    /\ placeholders = <<>>
    /\ OthersIdle

\* DocumentAndQuestionEncoder.init
init ==
    /\ enc.context_words = "None"
    /\ \E spec \in InputSpecs, word_emb \in WordEmbedders, char_emb \in CharEmbedders :
            /\ (char_emb = None => spec.max_word_size = None /\ word_emb # "None")
            /\ (word_emb = "None" => spec.max_word_size = None)
            /\ enc' = Initialised(enc, spec, word_emb, char_emb)
            /\ input_spec' = spec
    /\ UNCHANGED <<callVars, otherVars>>

\* DocumentAndQuestionEncoder.encode on a batch drawn from `batches`
EncodeFrom(batches) ==
    /\ enc.context_words # "None"
    /\ calls_left > 0
    /\ \E b \in batches, train \in BOOLEAN :
        \E ph \in [1 .. (IF Precheck(enc, b, train) = "ok" THEN NumRequests(enc, b) ELSE 0) -> PlaceholderIds] :
        \E pick \in (IF Precheck(enc, b, train) = "ok"
                     THEN AnswerPicks(enc.answer_encoder, ContextLen(enc, b, train), b)
                     ELSE {<<>>}) :
            LET r == Encoded(enc, b, train, ph, pick)
            IN /\ batch' = b
               /\ is_train' = train
               /\ outcome' = r.outcome
               /\ feed_dict' = r.feed_dict
               /\ alloc' = r.alloc
               /\ writes' = r.writes
               /\ lookups' = r.lookups
               /\ placeholders' = r.placeholders
    /\ calls_left' = calls_left - 1
    /\ UNCHANGED <<encVars, otherVars>>

\* DocumentAndQuestionEncoder.encode
encode == EncodeFrom(Batches)

vars == <<enc, input_spec, batch, is_train, outcome, feed_dict, alloc, writes, lookups, calls_left, placeholders,
          answer_args, answer_out, packed, persisted, loaded, cheat, variant>>

Next == init \/ encode

Spec == Init /\ [][Next]_vars

\* ------------------------------------------------------------ claims, Spec
\* the context of an example as one sequence of words
RECURSIVE Flatten(_)
Flatten(context) == IF context = <<>> THEN <<>> ELSE Head(context) \o Flatten(Tail(context))

\* the leading dimension of an array
LeadingDim(array) == Cardinality(DOMAIN array)

\* C1: every array of a returned feed mapping has the padded batch size as its
\* leading dimension: the fixed capacity when one is configured, else the
\* number of examples.
C1_LeadingDimIsPaddedBatchSize ==
    outcome = "returned" =>
        \A k \in DOMAIN feed_dict :
            LeadingDim(feed_dict[k]) =
                (IF enc.batch_size # None THEN enc.batch_size ELSE Len(batch))

\* C2: every assignment into a word or char buffer is inside the allocated
\* buffer and inside the configured maxima.
C2_WritesInsideBuffers ==
    /\ \A x \in writes.question_words :
            x[1] < alloc.batch_size /\ x[2] < alloc.ques_word_dim
    /\ \A x \in writes.context_words :
            /\ x[1] < alloc.batch_size /\ x[2] < alloc.context_word_dim
            /\ enc.max_context_word_dim # None => x[2] <= enc.max_context_word_dim - 1
    /\ \A x \in writes.question_chars :
            /\ x[1] < alloc.batch_size /\ x[2] < alloc.ques_word_dim
            /\ x[3] < alloc.max_char_dim /\ x[3] < enc.max_char_dim
    /\ \A x \in writes.context_chars :
            /\ x[1] < alloc.batch_size /\ x[2] < alloc.context_word_dim
            /\ enc.max_context_word_dim # None => x[2] <= enc.max_context_word_dim - 1
            /\ x[3] < alloc.max_char_dim /\ x[3] < enc.max_char_dim

\* C2 witness: a training call that returned after cutting a context at the
\* word cap and a word at the char cap.
C2_Witness ==
    /\ outcome = "returned" /\ is_train
    /\ enc.max_context_word_dim # None /\ enc.char_emb # None /\ enc.word_embedder # "None"
    /\ \E i \in Range(Len(batch)) :
            /\ SumLens(batch[i + 1].context) > enc.max_context_word_dim
            /\ <<i, enc.max_context_word_dim - 1>> \in writes.context_words
            /\ \E j \in Range(Len(batch[i + 1].question)) :
                    /\ Len(batch[i + 1].question[j + 1]) > enc.max_char_dim
                    /\ <<i, j, enc.max_char_dim - 1>> \in writes.question_chars

\* the batch of the last call breaks a fixed dimension
OverCapacity == enc.batch_size # None /\ Len(batch) > enc.batch_size

OverlongQuestion ==
    /\ enc.max_ques_word_dim # None
    /\ \E i \in 1 .. Len(batch) : Len(batch[i].question) > enc.max_ques_word_dim

\* C3: a batch above the fixed capacity, or a question above the fixed question
\* dimension, makes encode raise, return no mapping, and request no
\* placeholder id before it raises.
C3_ConfigurationErrorBeforeLookups ==
    (outcome # "idle" /\ (OverCapacity \/ OverlongQuestion)) =>
        /\ outcome = "ValueError"
        /\ feed_dict = <<>>
        /\ lookups = <<>>

\* C3 witness: a call within capacity, with a word lookup and an unknown token,
\* that raised for an overlong question.
C3_Witness ==
    /\ outcome = "ValueError" /\ ~OverCapacity /\ OverlongQuestion
    /\ enc.word_embedder # "None"
    /\ \E i \in 1 .. Len(batch) : \E j \in 1 .. Len(batch[i].question) :
            question_word_to_ix(batch[i].question[j]) < 0

\* the written occurrences of unknown tokens of example i: <<lowercased token, id>>
UnknownOccurrences(i) ==
    {<<lower(batch[i + 1].question[x[2] + 1]), feed_dict["question_words"][i][x[2]]>> :
        x \in {y \in writes.question_words :
                 y[1] = i /\ question_word_to_ix(batch[i + 1].question[y[2] + 1]) < 0}}
    \cup
    {<<lower(Flatten(batch[i + 1].context)[x[2] + 1]), feed_dict["context_words"][i][x[2]]>> :
        x \in {y \in writes.context_words :
                 y[1] = i /\ context_word_to_ix(Flatten(batch[i + 1].context)[y[2] + 1]) < 0}}

\* C4: within one example all written occurrences of an unknown token with the
\* same lowercased form carry one placeholder id, and that id was requested
\* from the word lookup for that example.
C4_OnePlaceholderPerExample ==
    (outcome = "returned" /\ enc.word_embedder # "None") =>
        \A i \in Range(Len(batch)) :
            /\ \A o1 \in UnknownOccurrences(i), o2 \in UnknownOccurrences(i) :
                    o1[1] = o2[1] => o1[2] = o2[2]
            /\ \A o \in UnknownOccurrences(i) :
                    \E k \in DOMAIN lookups :
                        lookups[k].doc_ix = i /\ lookups[k].word = o[1] /\ lookups[k].id = o[2]

\* C4 witness: an unknown token written in the question and in the context of
\* one example with one id, and in another example of the batch with another.
C4_Witness ==
    /\ outcome = "returned" /\ enc.word_embedder # "None"
    /\ \E i \in Range(Len(batch)), j \in Range(Len(batch)) :
        /\ i # j
        /\ \E qx \in writes.question_words, cx \in writes.context_words :
                /\ qx[1] = i /\ cx[1] = i
                /\ question_word_to_ix(batch[i + 1].question[qx[2] + 1]) < 0
                /\ lower(batch[i + 1].question[qx[2] + 1]) =
                        lower(Flatten(batch[i + 1].context)[cx[2] + 1])
                /\ batch[i + 1].question[qx[2] + 1] # Flatten(batch[i + 1].context)[cx[2] + 1]
                /\ \E o \in UnknownOccurrences(j) :
                        /\ o[1] = lower(batch[i + 1].question[qx[2] + 1])
                        /\ o[2] # feed_dict["question_words"][i][qx[2]]

\* init was given a context-word bound and the encoder has a context-size threshold
BothSet ==
    /\ enc.context_words # "None"
    /\ input_spec.max_num_context_words # None
    /\ enc.doc_size_th # None

\* the number of context positions the last call assigned for example i
ContextWritten(i) == Cardinality({x \in writes.context_words : x[1] = i})

\* C13: with both set, max_context_word_dim is the minimum of the input spec's
\* context-word bound and the context-size threshold, so a threshold below the
\* bound caps the context words written per example and the training-mode
\* context_len
C13_MaxContextIsMinOfBoundAndThreshold ==
    BothSet =>
        /\ enc.max_context_word_dim = Min(input_spec.max_num_context_words, enc.doc_size_th)
        /\ (outcome = "returned" /\ enc.doc_size_th < input_spec.max_num_context_words) =>
                \A i \in Range(Len(batch)) :
                    /\ ContextWritten(i) <= enc.doc_size_th
                    /\ is_train => feed_dict["context_len"][i] <= enc.doc_size_th

\* C15: after a successful call, context_len[i] is the number of context word
\* positions the call filled for example i: every position before it was
\* written from a context token and every position from it on is padding, in
\* both modes and for every combination of the two thresholds
C15_ContextLenCountsFilledPositions ==
    (outcome = "returned" /\ enc.word_embedder # "None") =>
        \A i \in Range(Len(batch)) :
            /\ feed_dict["context_len"][i] = ContextWritten(i)
            /\ \A j \in DOMAIN feed_dict["context_words"][i] :
                    j < feed_dict["context_len"][i] <=> <<i, j>> \in writes.context_words

\* ------------------------------------------ answer encoders called directly
Spans == (0 .. MaxIdx) \X (0 .. MaxIdx)

\* the span sets of an answer: at most two gold spans
SpanSets == {S \in SUBSET Spans : Cardinality(S) <= 2}

Answers ==
    {NoAnswer, OtherAnswer}
    \cup {ParagraphSpans(S) : S \in SpanSets} \cup {TriviaQaAnswer(S) : S \in SpanSets}

\* batches of at most two examples; the answer encoders read only doc.answer
AnswerBatches == SeqsUpTo({[answer |-> a] : a \in Answers}, 2)

\* context lengths the batch encoder may pass along
ContextLens(n) == [Range(n) -> 0 .. (MaxIdx + 1)]

InitAnswer ==
    /\ EncoderIdle
    /\ OthersIdle

Called(encoder, batch_size, context_len, context_word_dim, b, pick) ==
    /\ answer_args' = [encoder |-> encoder, batch_size |-> batch_size, context_len |-> context_len,
                       context_word_dim |-> context_word_dim, batch |-> b, pick |-> pick]
    /\ answer_out' = AnswerEncoder_encode(encoder, batch_size, context_len, context_word_dim, b, pick)
    /\ UNCHANGED <<encVars, callVars, packed, persisted, loaded, variantVars>>

\* SingleSpanAnswerEncoder.encode, on a batch padded by 0 or 1 rows
SingleSpanEncode ==
    /\ answer_out.error = "idle"
    /\ \E b \in AnswerBatches, pad \in {0, 1} : \E context_len \in ContextLens(Len(b)) :
        \E pick \in SinglePicks(context_len, b) :
            Called([kind |-> "SingleSpanAnswerEncoder", bound |-> None], Len(b) + pad, context_len,
                   IF b = <<>> THEN 0 ELSE ArrayMax(context_len), b, pick)

\* DenseMultiSpanAnswerEncoder.encode
DenseMultiSpanEncode ==
    /\ answer_out.error = "idle"
    /\ \E b \in AnswerBatches, pad \in {0, 1}, context_word_dim \in 0 .. (MaxIdx + 1) :
            Called([kind |-> "DenseMultiSpanAnswerEncoder", bound |-> None], Len(b) + pad,
                   [i \in Range(Len(b)) |-> context_word_dim], context_word_dim, b,
                   [i \in Range(Len(b)) |-> <<0, 0>>])

\* PackedMultiSpanAnswerEncoder.encode
PackedMultiSpanEncode ==
    /\ answer_out.error = "idle"
    /\ \E b \in AnswerBatches, pad \in {0, 1}, context_word_dim \in 0 .. (MaxIdx + 1), bound \in {1, 2} :
            Called([kind |-> "PackedMultiSpanAnswerEncoder", bound |-> bound], Len(b) + pad,
                   [i \in Range(Len(b)) |-> context_word_dim], context_word_dim, b,
                   [i \in Range(Len(b)) |-> <<0, 0>>])

NextAnswer == SingleSpanEncode \/ DenseMultiSpanEncode \/ PackedMultiSpanEncode

SpecAnswer == InitAnswer /\ [][NextAnswer]_vars

\* ------------------------------------------------------ claims, SpecAnswer
SingleCalled == answer_args.encoder.kind = "SingleSpanAnswerEncoder"

DenseCalled == answer_args.encoder.kind = "DenseMultiSpanAnswerEncoder"

\* the answer of example i of the direct call, and the candidates of a
\* multi-candidate answer that end inside the (truncated) context
ArgAnswer(i) == answer_args.batch[i + 1].answer

Surviving(i) == {sp \in ArgAnswer(i).spans : sp[2] < answer_args.context_len[i]}

\* C5: every pair SingleSpanAnswerEncoder.encode returns satisfies
\* 0 <= start <= end < context_len[example], for both answer representations.
C5_EmittedSpanInsideContext ==
    (SingleCalled /\ answer_out.error = "ok") =>
        \A i \in Range(Len(answer_args.batch)) :
            LET sp == answer_out.out["answer_spans"][i]
            IN 0 <= sp[1] /\ sp[1] <= sp[2] /\ sp[2] < answer_args.context_len[i]

\* C5 witness: a returned call over a pre-chosen span set and a multi-candidate
\* answer one of whose candidates ends beyond the context.
C5_Witness ==
    /\ SingleCalled /\ answer_out.error = "ok"
    /\ \E i \in Range(Len(answer_args.batch)), j \in Range(Len(answer_args.batch)) :
        /\ ArgAnswer(i).tag = "ParagraphSpans"
        /\ ArgAnswer(j).tag = "TriviaQaAnswer"
        /\ Surviving(j) # ArgAnswer(j).spans
        /\ answer_out.out["answer_spans"][j][2] = answer_args.context_len[j] - 1

\* a call in which no example stops the loop for another reason than the one
\* the claim is about
OnlySpanAnswers ==
    \A i \in Range(Len(answer_args.batch)) :
        ArgAnswer(i).tag \in {"None", "ParagraphSpans", "TriviaQaAnswer"}

\* C6 (a), (b): an answer of None, or a multi-candidate answer none of whose
\* candidates ends inside the context, makes the call raise, and the error is
\* the data error unless another example has raised before.
C6_FailsWithoutCandidate ==
    (SingleCalled /\ answer_out.error # "idle"
     /\ \E i \in Range(Len(answer_args.batch)) :
            \/ ArgAnswer(i).tag = "None"
            \/ ArgAnswer(i).tag = "TriviaQaAnswer" /\ Surviving(i) = {})
    => /\ answer_out.error # "ok"
       /\ OnlySpanAnswers => answer_out.error = "ValueError"

\* C6 as stated: the above, and a call all of whose examples are multi-candidate
\* answers with at least one well-formed surviving candidate returns, with a
\* surviving candidate for each example.
C6_Original ==
    /\ C6_FailsWithoutCandidate
    /\ (SingleCalled /\ answer_out.error # "idle"
        /\ \A i \in Range(Len(answer_args.batch)) :
                /\ ArgAnswer(i).tag = "TriviaQaAnswer"
                /\ \E sp \in Surviving(i) : sp[1] <= sp[2])
       => /\ answer_out.error = "ok"
          /\ \A i \in Range(Len(answer_args.batch)) :
                answer_out.out["answer_spans"][i] \in Surviving(i)

\* C6 as amended: (a), (b), and a call all of whose examples are multi-candidate
\* answers with a surviving candidate, every surviving candidate well-formed,
\* returns, with a surviving candidate for each example.
C6_SurvivorsAllWellFormed ==
    /\ C6_FailsWithoutCandidate
    /\ (SingleCalled /\ answer_out.error # "idle"
        /\ \A i \in Range(Len(answer_args.batch)) :
                /\ ArgAnswer(i).tag = "TriviaQaAnswer"
                /\ Surviving(i) # {}
                /\ \A sp \in Surviving(i) : sp[1] <= sp[2])
       => /\ answer_out.error = "ok"
          /\ \A i \in Range(Len(answer_args.batch)) :
                answer_out.out["answer_spans"][i] \in Surviving(i)

\* C6 witness: a returned call on a multi-candidate answer that lost a candidate
\* to the filter and kept more than one.
C6_Witness ==
    /\ SingleCalled /\ answer_out.error = "ok"
    /\ \E i \in Range(Len(answer_args.batch)) :
        /\ ArgAnswer(i).tag = "TriviaQaAnswer"
        /\ Surviving(i) # ArgAnswer(i).spans
        /\ answer_out.out["answer_spans"][i] \in Surviving(i)
    /\ \E j \in Range(Len(answer_args.batch)) :
        /\ ArgAnswer(j).tag = "TriviaQaAnswer"
        /\ Cardinality(Surviving(j)) = 2

\* the gold spans of example i of the direct call that end inside the buffer
GoldInside(i) ==
    IF i < Len(answer_args.batch) /\ ArgAnswer(i).tag # "None"
    THEN {sp \in ArgAnswer(i).spans : sp[2] < answer_args.context_word_dim}
    ELSE {}

\* C7: the masks DenseMultiSpanAnswerEncoder.encode returns are true exactly at
\* the starts, and at the ends, of the gold spans that end inside
\* context_word_dim; rows of examples without answer and of padding are all
\* false; a well-formed span ending beyond the buffer raises nothing.
C7_DenseMasksExact ==
    /\ (DenseCalled /\ answer_out.error = "ok") =>
        /\ DOMAIN answer_out.out = {"answer_starts", "answer_ends"}
        /\ \A k \in DOMAIN answer_out.out :
            /\ DOMAIN answer_out.out[k] = Range(answer_args.batch_size)
            /\ \A i \in Range(answer_args.batch_size) :
                /\ DOMAIN answer_out.out[k][i] = Range(answer_args.context_word_dim)
                /\ \A j \in Range(answer_args.context_word_dim) :
                    answer_out.out[k][i][j] <=>
                        \E sp \in GoldInside(i) : (IF k = "answer_starts" THEN sp[1] ELSE sp[2]) = j
    /\ (DenseCalled /\ OnlySpanAnswers
        /\ \A i \in Range(Len(answer_args.batch)) : \A sp \in ArgAnswer(i).spans : sp[1] <= sp[2])
       => answer_out.error = "ok"

\* C7 witness: a returned call with a padding row, an example without answer,
\* and an example one of whose two gold spans is dropped.
C7_Witness ==
    /\ DenseCalled /\ answer_out.error = "ok"
    /\ answer_args.batch_size > Len(answer_args.batch)
    /\ \E i \in Range(Len(answer_args.batch)) : ArgAnswer(i).tag = "None"
    /\ \E i \in Range(Len(answer_args.batch)) :
        /\ Cardinality(ArgAnswer(i).spans) = 2
        /\ Cardinality(GoldInside(i)) = 1
        /\ \E j \in Range(answer_args.context_word_dim) : answer_out.out["answer_starts"][i][j]

\* ------------------------------------------------------ packed span index
InitPack == EncoderIdle /\ OthersIdle

\* PackedMultiSpanAnswerEncoder.encode on one gold span: the row is sized by
\* the packed index of (context_word_dim - bound, context_word_dim - 1) and
\* the gold span is addressed by its own packed index
PackGoldSpan ==
    /\ packed.index = None
    /\ \E context_word_dim \in 1 .. MaxLen, bound \in 1 .. MaxBound :
        \E span \in ValidSpans(context_word_dim, bound) :
            packed' = [span |-> span, context_length |-> context_word_dim, bound |-> bound,
                       index |-> to_packed_coordinates_np(span, context_word_dim, bound),
                       width |-> PackedSize(context_word_dim, bound)]
    /\ UNCHANGED <<encVars, callVars, answer_args, answer_out, persisted, loaded, variantVars>>

NextPack == PackGoldSpan

SpecPack == InitPack /\ [][NextPack]_vars

\* ------------------------------------------------------- claims, SpecPack
Packed == packed.index # None

OtherValidSpans == ValidSpans(packed.context_length, packed.bound) \ {packed.span}

IndexOf(span) == to_packed_coordinates_np(span, packed.context_length, packed.bound)

LexLess(a, b) == a[1] < b[1] \/ (a[1] = b[1] /\ a[2] < b[2])

LastStart == <<packed.context_length - 1, packed.context_length - 1>>

LastPossible == <<packed.context_length - packed.bound, packed.context_length - 1>>

ExampleOf3Words == packed.context_length = 3 /\ packed.bound = 2

IncreasingAndExample ==
    /\ \A other \in OtherValidSpans :
            LexLess(packed.span, other) <=> packed.index < IndexOf(other)
    /\ ExampleOf3Words =>
            /\ ValidSpans(3, 2) = {<<0, 0>>, <<0, 1>>, <<1, 1>>, <<1, 2>>, <<2, 2>>}
            /\ (packed.span = <<2, 2>> => packed.index = 4)

version == 2

Versions == 0 .. version

Put(dict, key, value) == (key :> value) @@ dict

\* the persisted fields: the two thresholds are always there, the featurizer
\* and the answer encoder are there or not
Persisted(thresholds, has_featurizer, featurizer, has_encoder, encoder) ==
    thresholds
        @@ (IF has_featurizer THEN "word_featurizer" :> featurizer ELSE <<>>)
        @@ (IF has_encoder THEN "answer_encoder" :> encoder ELSE <<>>)

\* Configurable.__setstate__: the persisted fields become the object's fields
Configurable_setstate(state) == [error |-> "none", dict |-> state.state]

\* the migration with the answer encoder defaulted for version 0 only
SetstateDefaultsEncoderBelow1(state) ==
    IF state.version = 0 /\ "word_featurizer" \in DOMAIN state.state
    THEN [error |-> "ValueError", dict |-> <<>>]
    ELSE LET s1 == IF state.version = 0 THEN Put(state.state, "word_featurizer", None)
                   ELSE state.state
         IN IF state.version < 1 /\ "answer_encoder" \in DOMAIN s1
            THEN [error |-> "ValueError", dict |-> <<>>]
            ELSE Configurable_setstate(
                    [state EXCEPT !.state =
                        IF state.version < 1
                        THEN Put(s1, "answer_encoder", [kind |-> "SingleSpanAnswerEncoder", bound |-> None])
                        ELSE s1])

DocumentAndQuestionEncoder_setstate(state) ==
    IF state.version = 0 /\ "word_featurizer" \in DOMAIN state.state
    THEN [error |-> "ValueError", dict |-> <<>>]
    ELSE LET s1 == IF state.version = 0 THEN Put(state.state, "word_featurizer", None)
                   ELSE state.state
         IN IF state.version <= 1 /\ "answer_encoder" \in DOMAIN s1
            THEN [error |-> "ValueError", dict |-> <<>>]
            ELSE Configurable_setstate(
                    [state EXCEPT !.state =
                        IF state.version <= 1
                        THEN Put(s1, "answer_encoder", [kind |-> "SingleSpanAnswerEncoder", bound |-> None])
                        ELSE s1])

InitLoad == EncoderIdle /\ OthersIdle

\* DocumentAndQuestionEncoder.__setstate__
setstate ==
    /\ loaded.error = "idle"
    /\ \E v \in Versions, thresholds \in [doc_size_th : ParaSizeThs, sent_size_th : SentSizeThs],
          has_featurizer \in BOOLEAN, featurizer \in WordFeaturizers,
          has_encoder \in BOOLEAN, encoder \in {ae \in AnswerEncoders : ae.bound = None} :
            LET state == Persisted(thresholds, has_featurizer, featurizer, has_encoder, encoder)
            IN /\ persisted' = [version |-> v, state |-> state]
               /\ loaded' = DocumentAndQuestionEncoder_setstate([version |-> v, state |-> state])
    /\ UNCHANGED <<encVars, callVars, answer_args, answer_out, packed, variantVars>>

NextLoad == setstate

SpecLoad == InitLoad /\ [][NextLoad]_vars

\* ------------------------------------------------------- claims, SpecLoad
LoadTried == loaded.error # "idle"

Has(field) == field \in DOMAIN persisted.state

UnexpectedField ==
    \/ persisted.version = 0 /\ Has("word_featurizer")
    \/ persisted.version <= 1 /\ Has("answer_encoder")

Synthesized ==
    (IF persisted.version = 0 THEN {"word_featurizer"} ELSE {})
        \cup (IF persisted.version <= 1 THEN {"answer_encoder"} ELSE {})

\* C10: a load fails with no encoder produced exactly when a version-0 state
\* has a word_featurizer or a version <= 1 state has an answer_encoder;
\* otherwise every persisted field is kept, version 0 gets word_featurizer =
\* none, versions 0 and 1 get the single-span answer encoder, and version 2
\* gets nothing added
C10_LoadMigratesByVersion ==
    LoadTried =>
        IF UnexpectedField
        THEN loaded.error = "ValueError" /\ DOMAIN loaded.dict = {}
        ELSE /\ loaded.error = "none"
             /\ DOMAIN loaded.dict = DOMAIN persisted.state \cup Synthesized
             /\ \A field \in DOMAIN persisted.state : loaded.dict[field] = persisted.state[field]
             /\ persisted.version = 0 => loaded.dict["word_featurizer"] = None
             /\ persisted.version <= 1 =>
                    loaded.dict["answer_encoder"].kind = "SingleSpanAnswerEncoder"

C10_Witness ==
    /\ loaded.error = "none"
    /\ persisted.version = 1
    /\ Has("word_featurizer")
    /\ persisted.state["word_featurizer"] = 1
    /\ loaded.dict["word_featurizer"] = 1
    /\ loaded.dict["answer_encoder"].kind = "SingleSpanAnswerEncoder"

\* -------------------------------------------------------- CheatingEncoder
\* the spans of an answer in the order the loop visits them
RECURSIVE SpansInOrder(_)
SpansInOrder(spans) ==
    IF spans = {} THEN <<>>
    ELSE LET first == CHOOSE sp \in spans : \A other \in spans :
                            sp[1] < other[1] \/ (sp[1] = other[1] /\ sp[2] <= other[2])
         IN <<first>> \o SpansInOrder(spans \ {first})

\* the assignments of the loop over one span, to a row of context_words
MarkSpan(row, sp) ==
    [j \in DOMAIN row |->
        IF j = sp[2] THEN question_word_to_ix(w_the)
        ELSE IF j = sp[1] THEN question_word_to_ix(w_what)
        ELSE IF sp[1] < j /\ j < sp[2] THEN question_word_to_ix(w_a)
        ELSE row[j]]

RECURSIVE MarkSpans(_, _)
MarkSpans(row, spans) ==
    IF spans = <<>> THEN row ELSE MarkSpans(MarkSpan(row, Head(spans)), Tail(spans))

\* what CheatingEncoder.encode raises before its loop, else "ok"; comparing the
\* longest question with a max_ques_word_dim of None is a TypeError
CheatPrecheck(e, b) ==
    IF BatchTooLarge(e, b) THEN "ValueError"
    ELSE IF Len(b) = 0 THEN "ValueError"
    ELSE IF e.max_ques_word_dim = None THEN "TypeError"
    ELSE IF ArrayMax(QuestionLen(b)) > e.max_ques_word_dim THEN "ValueError"
    ELSE "ok"

\* what the loop over one example raises: context_words is None without a
\* word embedder, and a span may lie outside the row
CheatFailure(e, answer, context_word_dim) ==
    IF e.word_embedder = "None" THEN "TypeError"
    ELSE IF answer.tag = "None" THEN "ok"
    ELSE IF answer.tag \notin {"ParagraphSpans", "TriviaQaAnswer"} THEN "AttributeError"
    ELSE IF \E sp \in answer.spans : sp[1] >= context_word_dim \/ sp[2] >= context_word_dim
         THEN "IndexError"
    ELSE "ok"

\* CheatingEncoder.encode
CheatingEncoder_encode(e, len_opt, b, train) ==
    IF CheatPrecheck(e, b) # "ok"
    THEN [len_opt |-> len_opt, outcome |-> CheatPrecheck(e, b), feed_dict |-> <<>>]
    ELSE
    LET n == Len(b)
        N == PaddedBatchSize(e, b)
        context_len == ContextLen(e, b, train)
        question_len == QuestionLen(b)
        ques_word_dim == IF len_opt THEN Min(e.max_ques_word_dim, ArrayMax(question_len))
                         ELSE e.max_ques_word_dim
        context_word_dim == IF len_opt THEN Min(ContextWordDim(e, b, train), ArrayMax(context_len))
                            ELSE ContextWordDim(e, b, train)
        fail == [i \in Range(n) |-> CheatFailure(e, b[i + 1].answer, context_word_dim)]
        zeros == [j \in Range(context_word_dim) |-> 0]
        context_words ==
            [i \in Range(N) |->
                IF i < n THEN MarkSpans(zeros, SpansInOrder(b[i + 1].answer.spans)) ELSE zeros]
        question_words == [i \in Range(N) |-> [j \in Range(ques_word_dim) |-> 0]]
        context_chars ==
            [i \in Range(N) |-> [j \in Range(context_word_dim) |-> [k \in Range(e.max_char_dim) |-> 0]]]
        question_chars ==
            [i \in Range(N) |-> [j \in Range(ques_word_dim) |-> [k \in Range(e.max_char_dim) |-> 0]]]
        answer == AnswerEncoder_encode(e.answer_encoder, N, context_len, context_word_dim, b,
                                       [i \in Range(n) |-> <<0, 0>>])
        slots == {"context_len", "question_len", "context_words", "question_words"}
                    \cup (IF e.char_emb # None THEN {"context_chars", "question_chars"} ELSE {})
        own == [k \in slots |->
                  CASE k = "context_len" -> context_len
                    [] k = "question_len" -> question_len
                    [] k = "context_words" -> context_words
                    [] k = "question_words" -> question_words
                    [] k = "context_chars" -> context_chars
                    [] k = "question_chars" -> question_chars]
        error == IF FirstError(fail) # "ok" THEN FirstError(fail) ELSE answer.error
    IN [len_opt |-> len_opt,
        outcome |-> IF error = "ok" THEN "returned" ELSE error,
        feed_dict |-> IF error = "ok" THEN answer.out @@ own ELSE <<>>]

\* a CheatingEncoder is a DocumentAndQuestionEncoder constructed with a dense
\* answer encoder and nothing else; both are initialised alike
CheatingEncoders(spec) ==
    {Initialised(Constructed([kind |-> "DenseMultiSpanAnswerEncoder", bound |-> None], None, None, None),
                 spec, word_emb, char_emb) :
        word_emb \in WordEmbedders, char_emb \in CharEmbedders}

InitCheat ==
    /\ input_spec \in {spec \in InputSpecs : spec.max_num_context_words = None}
    /\ enc \in CheatingEncoders(input_spec)
    /\ batch = <<>>
    /\ is_train = FALSE
    /\ outcome = "idle"
    /\ feed_dict = <<>>
    /\ alloc = NoAlloc
    /\ writes = NoWrites
    /\ lookups = <<>>
    /\ calls_left = 1
    /\ placeholders = <<>>
    /\ OthersIdle

\* CheatingEncoder.encode, on the batch and in the mode of the last
\* DocumentAndQuestionEncoder.encode call
cheating_encode ==
    /\ outcome # "idle"
    /\ cheat.outcome = "idle"
    /\ \E len_opt \in BOOLEAN : cheat' = CheatingEncoder_encode(enc, len_opt, batch, is_train)
    /\ UNCHANGED <<encVars, callVars, answer_args, answer_out, packed, persisted, loaded, variant>>

NextCheat == encode \/ cheating_encode

SpecCheat == InitCheat /\ [][NextCheat]_vars

\* ------------------------------------------------------ claims, SpecCheat
\* the sentinels a context position inside a gold span of example i may hold
Sentinels(i, j) ==
    LET spans == IF i < Len(batch) THEN batch[i + 1].answer.spans ELSE {}
    IN {question_word_to_ix(w_what) : sp \in {x \in spans : x[1] = j}}
       \cup {question_word_to_ix(w_the) : sp \in {x \in spans : x[2] = j}}
       \cup {question_word_to_ix(w_a) : sp \in {x \in spans : x[1] < j /\ j < x[2]}}

\* C11: the CheatingEncoder returns what the DocumentAndQuestionEncoder
\* returns for the same batch, configuration and mode, except that the context
\* word positions inside a gold span hold the start, end or interior sentinel
C11_CheatingDiffersOnlyInsideGoldSpans ==
    (cheat.outcome # "idle" /\ outcome = "returned") =>
        /\ cheat.outcome = "returned"
        /\ DOMAIN cheat.feed_dict = DOMAIN feed_dict
        /\ \A k \in DOMAIN feed_dict \ {"context_words"} : cheat.feed_dict[k] = feed_dict[k]
        /\ "context_words" \in DOMAIN feed_dict =>
                /\ DOMAIN cheat.feed_dict["context_words"] = DOMAIN feed_dict["context_words"]
                /\ \A i \in DOMAIN feed_dict["context_words"] :
                     /\ DOMAIN cheat.feed_dict["context_words"][i] = DOMAIN feed_dict["context_words"][i]
                     /\ \A j \in DOMAIN feed_dict["context_words"][i] :
                            IF Sentinels(i, j) # {}
                            THEN cheat.feed_dict["context_words"][i][j] \in Sentinels(i, j)
                            ELSE cheat.feed_dict["context_words"][i][j] = feed_dict["context_words"][i][j]

\* ------------------------------------------- encode, call after call
\* examples with an unknown token the truncation can drop, and with one the
\* question and the context share
SeqCorpus ==
    { Example(<<w_a>>, << <<w_a>>, <<w_a, w_bar>> >>, ParagraphSpans({<<0, 0>>})),
      Example(<<w_Fo>>, << <<w_fo>> >>, ParagraphSpans({<<0, 0>>})) }

SeqBatches == SeqsUpTo(SeqCorpus, 2)

\* encoders with a word lookup, initialised, for every combination of the
\* context thresholds
SeqEncoders(spec) ==
    {Initialised(Constructed([kind |-> "DenseMultiSpanAnswerEncoder", bound |-> None], p, st, None),
                 spec, "WordEmbedder", None) :
        p \in ParaSizeThs, st \in SentSizeThs}

InitSeq ==
    /\ input_spec \in {spec \in InputSpecs : spec.batch_size = None /\ spec.max_word_size = None
                                               /\ spec.max_num_quesiton_words = None}
    /\ enc \in SeqEncoders(input_spec)
    /\ batch = <<>>
    /\ is_train = FALSE
    /\ outcome = "idle"
    /\ feed_dict = <<>>
    /\ alloc = NoAlloc
    /\ writes = NoWrites
    /\ lookups = <<>>
    /\ calls_left = MaxCalls
    /\ placeholders = <<>>
    /\ OthersIdle

\* DocumentAndQuestionEncoder.encode, one call of a sequence
encode_next == EncodeFrom(SeqBatches)

NextSeq == encode_next

SpecSeq == InitSeq /\ [][NextSeq]_vars

\* -------------------------------------------------------- claims, SpecSeq
\* the words of example i the last call wrote: its question, and as many
\* leading context words as context positions were assigned
WrittenWords(i) ==
    batch[i + 1].question
        \o SubSeq(Flatten(batch[i + 1].context), 1,
                  Cardinality({x \in writes.context_words : x[1] = i}))

\* the lowercased unknown tokens of `words`, each once, at its first occurrence
RECURSIVE FirstUnknown(_, _)
FirstUnknown(words, seen) ==
    IF words = <<>> THEN <<>>
    ELSE LET wl == lower(Head(words))
         IN IF question_word_to_ix(Head(words)) >= 0 \/ wl \in seen
            THEN FirstUnknown(Tail(words), seen)
            ELSE <<wl>> \o FirstUnknown(Tail(words), seen \cup {wl})

\* the tokens the last call requested an id for while encoding example i
RECURSIVE RequestedFor(_, _)
RequestedFor(i, log) ==
    IF log = <<>> THEN <<>>
    ELSE (IF Head(log).doc_ix = i THEN <<Head(log).word>> ELSE <<>>) \o RequestedFor(i, Tail(log))

\* C12: in every call of a sequence of calls, each example requests one
\* placeholder id per distinct lowercased unknown token among the words
\* written for it, at the first occurrence, whatever earlier examples and
\* earlier calls contained; words cut off by truncation request none
C12_RequestsPerExampleStartFresh ==
    outcome = "returned" =>
        \A i \in Range(Len(batch)) : RequestedFor(i, lookups) = FirstUnknown(WrittenWords(i), {})

\* C12 witness: a second call where an example with an unknown token cut off
\* by truncation requested nothing and another example requested an id
C12_Witness ==
    /\ outcome = "returned" /\ calls_left = 0
    /\ \E i \in Range(Len(batch)), j \in Range(Len(batch)) :
        /\ RequestedFor(i, lookups) = <<>>
        /\ Len(WrittenWords(i)) < Len(batch[i + 1].question) + Len(Flatten(batch[i + 1].context))
        /\ context_word_to_ix(Flatten(batch[i + 1].context)[Len(Flatten(batch[i + 1].context))]) < 0
        /\ RequestedFor(j, lookups) # <<>>

\* ----------------------- QuestionEncoder, MultiContextAndQuestionEncoder
\* QuestionEncoder.init / MultiContextAndQuestionEncoder.init: the fields set
VariantInitialised(kind, word_emb, char_emb) ==
    [NoVariant EXCEPT !.kind = kind,
                      !.word_embedder = word_emb,
                      !.char_emb = char_emb,
                      !.max_char_dim = IF char_emb # None THEN char_emb ELSE 1,
                      !.outcome = "idle"]

\* the call's result stored with the encoder
VariantCalled(v, b, train, r) ==
    [v EXCEPT !.batch = b, !.is_train = train, !.outcome = r.outcome,
              !.feed_dict = r.feed_dict, !.lookups = r.lookups]

\* QuestionEncoder.encode on a batch of questions
QuestionEncoder_encode(v, questions) ==
    LET n == Len(questions)
        question_len == [i \in Range(n) |-> Len(questions[i + 1])]
        ques_word_dim == ArrayMax(question_len)
        a == [batch_size |-> n, max_char_dim |-> v.max_char_dim]
        ques == [i \in Range(n) |-> questions[i + 1]]
        ids == [i \in Range(n) |->
                    [j \in 1 .. Len(ques[i]) |-> question_word_to_ix(ques[i][j])]]
        unknown == v.word_embedder # "None"
                    /\ \E i \in Range(n) : \E j \in 1 .. Len(ques[i]) : ids[i][j] < 0
        slots == {"question_len"}
                    \cup (IF v.word_embedder # "None" THEN {"question_words"} ELSE {})
                    \cup (IF v.char_emb # None THEN {"question_chars"} ELSE {})
        own == [k \in slots |->
                  CASE k = "question_len" -> question_len
                    [] k = "question_words" -> WordArray(a, ques_word_dim, WordIndices(ques), ids)
                    [] k = "question_chars" ->
                            CharArray(a, ques_word_dim, CharIndices(v, ques), ques)]
    IN IF n = 0 \/ unknown
       THEN [outcome |-> "ValueError", feed_dict |-> <<>>, lookups |-> <<>>]
       ELSE [outcome |-> "returned", feed_dict |-> own, lookups |-> <<>>]

\* a context loop that lets unknown tokens through
MultiContextNoFailure(doc) == "ok"

\* the loop over the paragraphs of one example: an unknown token raises
MultiContextFailure(doc) ==
    IF \E para_ix \in DOMAIN doc.context : \E word_ix \in DOMAIN doc.context[para_ix] :
            context_word_to_ix(doc.context[para_ix][word_ix]) < 0
    THEN "ValueError" ELSE "ok"

\* the loop over the batch, up to the example that raises: st carries the
\* question ids written, the requests made and the error
RECURSIVE MultiLoop(_, _, _, _)
MultiLoop(b, ph, train, st) ==
    IF st.doc_ix = Len(b) \/ st.error # "ok" THEN st
    ELSE LET doc == b[st.doc_ix + 1]
             q == ResolveWords(doc.question, "question",
                      [ids |-> <<>>, placeholders |-> NewPlaceholders, requests |-> <<>>,
                       used |-> st.used], ph)
         IN MultiLoop(b, ph, train,
                [doc_ix |-> st.doc_ix + 1,
                 used |-> q.used,
                 questions |-> Append(st.questions, q.ids),
                 lookups |-> st.lookups \o
                    [k \in 1 .. Len(q.requests) |->
                        [doc_ix |-> st.doc_ix, word |-> q.requests[k].word,
                         id |-> q.requests[k].id, is_train |-> train]],
                 error |-> MultiContextFailure(doc)])

MultiStart == [doc_ix |-> 0, used |-> 0, questions |-> <<>>, lookups |-> <<>>, error |-> "ok"]

\* how many placeholder ids a call requests
MultiNumRequests(v, b) ==
    IF v.word_embedder = "None" \/ b = <<>> THEN 0
    ELSE MultiLoop(b, [k \in 1 .. SumQuestionAndContext(b) |-> 0], FALSE, MultiStart).used

\* MultiContextAndQuestionEncoder.encode
MultiContextAndQuestionEncoder_encode(v, b, train, ph) ==
    IF b = <<>> THEN [outcome |-> "ValueError", feed_dict |-> <<>>, lookups |-> <<>>]
    ELSE
    LET n == Len(b)
        lens == [i \in Range(n) |-> Len(b[i + 1].context)]
        para_dim == ArrayMax(lens)
        context_len ==
            [i \in Range(n) |-> [p \in Range(para_dim) |->
                IF p < lens[i] THEN Len(b[i + 1].context[p + 1]) ELSE 0]]
        context_word_dim == ArrayMax([i \in Range(n) |-> ArrayMax(context_len[i])])
        question_len == QuestionLen(b)
        question_word_dim == ArrayMax(question_len)
        done == MultiLoop(b, ph, train, MultiStart)
        context_words ==
            [i \in Range(n) |-> [p \in Range(para_dim) |-> [j \in Range(context_word_dim) |->
                IF p < lens[i] /\ j < context_len[i][p]
                THEN context_word_to_ix(b[i + 1].context[p + 1][j + 1]) ELSE 0]]]
        question_words ==
            [i \in Range(n) |-> [j \in Range(question_word_dim) |->
                IF j < question_len[i] THEN done.questions[i + 1][j + 1] ELSE 0]]
        slots == {"context_len", "question_len"}
                    \cup (IF v.word_embedder # "None" THEN {"context_words", "question_words"} ELSE {})
        own == [k \in slots |->
                  CASE k = "context_len" -> context_len
                    [] k = "question_len" -> question_len
                    [] k = "context_words" -> context_words
                    [] k = "question_words" -> question_words]
    IN IF para_dim = 0 THEN [outcome |-> "ValueError", feed_dict |-> <<>>, lookups |-> <<>>]
       ELSE IF v.word_embedder = "None"
       THEN [outcome |-> "returned", feed_dict |-> own, lookups |-> <<>>]
       ELSE IF done.error # "ok"
       THEN [outcome |-> done.error, feed_dict |-> <<>>, lookups |-> done.lookups]
       ELSE [outcome |-> "returned", feed_dict |-> own, lookups |-> done.lookups]

\* examples with unknown tokens in the question only, in the context only, in both
VariantCorpus ==
    { Example(<<w_Fo, w_fo>>, << <<w_a>>, <<w_a, w_a>> >>, NoAnswer),
      Example(<<w_a>>, << <<w_a, w_bar>> >>, NoAnswer),
      Example(<<w_bar>>, << <<w_fo>> >>, NoAnswer) }

VariantBatches == SeqsUpTo(VariantCorpus, MaxBatch)

InitVariant == EncoderIdle /\ OthersIdle

\* QuestionEncoder.init
question_init ==
    /\ variant.kind = "None"
    /\ \E word_emb \in WordEmbedders, char_emb \in CharEmbedders :
            variant' = VariantInitialised("QuestionEncoder", word_emb, char_emb)
    /\ UNCHANGED <<encVars, callVars, answer_args, answer_out, packed, persisted, loaded, cheat>>

\* QuestionEncoder.encode
question_encode ==
    /\ variant.kind = "QuestionEncoder"
    /\ variant.outcome = "idle"
    /\ \E b \in VariantBatches, train \in BOOLEAN :
            LET questions == [i \in 1 .. Len(b) |-> b[i].question]
            IN variant' = VariantCalled(variant, questions, train, QuestionEncoder_encode(variant, questions))
    /\ UNCHANGED <<encVars, callVars, answer_args, answer_out, packed, persisted, loaded, cheat>>

\* MultiContextAndQuestionEncoder.init
multi_init ==
    /\ variant.kind = "None"
    /\ \E word_emb \in WordEmbedders :
            variant' = VariantInitialised("MultiContextAndQuestionEncoder", word_emb, None)
    /\ UNCHANGED <<encVars, callVars, answer_args, answer_out, packed, persisted, loaded, cheat>>

\* MultiContextAndQuestionEncoder.encode
multi_encode ==
    /\ variant.kind = "MultiContextAndQuestionEncoder"
    /\ variant.outcome = "idle"
    /\ \E b \in VariantBatches, train \in BOOLEAN :
        \E ph \in [1 .. MultiNumRequests(variant, b) -> PlaceholderIds] :
            variant' = VariantCalled(variant, b, train,
                            MultiContextAndQuestionEncoder_encode(variant, b, train, ph))
    /\ UNCHANGED <<encVars, callVars, answer_args, answer_out, packed, persisted, loaded, cheat>>

NextVariant == question_init \/ question_encode \/ multi_init \/ multi_encode

SpecVariant == InitVariant /\ [][NextVariant]_vars

\* ---------------------------------------------------- claims, SpecVariant
VariantDone == variant.outcome \notin {"uninitialised", "idle"}

IsQuestionEncoder == variant.kind = "QuestionEncoder"

IsMultiContext == variant.kind = "MultiContextAndQuestionEncoder"

\* the question of example i as passed to the last call
QuestionTokens(i) ==
    IF IsQuestionEncoder THEN variant.batch[i + 1] ELSE variant.batch[i + 1].question

UnknownQuestionToken ==
    \E i \in Range(Len(variant.batch)) : \E j \in 1 .. Len(QuestionTokens(i)) :
        question_word_to_ix(QuestionTokens(i)[j]) < 0

UnknownContextToken ==
    \E i \in 1 .. Len(variant.batch) :
        \E j \in 1 .. Len(Flatten(variant.batch[i].context)) :
            context_word_to_ix(Flatten(variant.batch[i].context)[j]) < 0

Aborted == variant.outcome = "ValueError" /\ DOMAIN variant.feed_dict = {}

\* C14: with a word lookup, QuestionEncoder.encode aborts on an unknown
\* question token, returns no mapping and never requests a placeholder id;
\* MultiContextAndQuestionEncoder.encode aborts on an unknown context token and
\* returns no mapping, and when it returns, the unknown question tokens of each
\* example hold placeholder ids, one request per distinct lowercased token
C14_UnknownTokenAbortsWithoutPlaceholder ==
    (VariantDone /\ variant.word_embedder # "None") =>
        /\ IsQuestionEncoder =>
                /\ variant.lookups = <<>>
                /\ UnknownQuestionToken => Aborted
        /\ IsMultiContext =>
                /\ UnknownContextToken => Aborted
                /\ variant.outcome = "returned" =>
                        \A i \in Range(Len(variant.batch)) :
                            /\ RequestedFor(i, variant.lookups) = FirstUnknown(QuestionTokens(i), {})
                            /\ \A j \in 1 .. Len(QuestionTokens(i)), k \in 1 .. Len(QuestionTokens(i)) :
                                    LET ids == variant.feed_dict["question_words"][i]
                                    IN question_word_to_ix(QuestionTokens(i)[j]) < 0 =>
                                        /\ ids[j - 1] \in PlaceholderIds
                                        /\ lower(QuestionTokens(i)[j]) = lower(QuestionTokens(i)[k])
                                                => ids[j - 1] = ids[k - 1]

\* C14 witness: a MultiContextAndQuestionEncoder call that requested an id for
\* the question of one example and then aborted on the context of a later one
C14_Witness ==
    /\ IsMultiContext /\ Aborted
    /\ variant.lookups # <<>>
    /\ Len(variant.batch) = 2
    /\ variant.lookups[1].doc_ix = 0
    /\ \E j \in 1 .. Len(Flatten(variant.batch[2].context)) :
            context_word_to_ix(Flatten(variant.batch[2].context)[j]) < 0

====
